---- MODULE Spec2Model ----
(***************************************************************************)
(* A model of gitget.py: clone a repository into a temporary directory,    *)
(* gather its plain-text files, read them with a process pool and write    *)
(* one Markdown artifact.  Strings are sequences of code points, files and *)
(* the artifact are sequences of bytes.                                    *)
(***************************************************************************)
EXTENDS Integers, Sequences, FiniteSets, TLC

\* ------------------------------------------------------------------ bounds
\* the largest number of entries (files, directories) of a repository tree
MaxEntries == 3
\* the largest value cpu_count() returns
MaxWorkers == 3
\* the number of times the program is run over the same tree
MaxRuns == 2
\* the largest number of bytes appended to a file built to probe the classifier
MaxTail == 2

\* ------------------------------------------------------- generic helpers
Range(s) == {s[i] : i \in 1..Len(s)}

Min(a, b) == IF a <= b THEN a ELSE b

Rep(c, n) == [i \in 1..n |-> c]

\* every enumeration of the finite set S as a duplicate-free sequence
Orderings(S) ==
    {s \in [1..Cardinality(S) -> S] : \A i, j \in 1..Cardinality(S) : s[i] = s[j] => i = j}

\* ------------------------------------------------------- string literals
SLASH == 47

S_git == <<46, 103, 105, 116>>

S_tmp_prefix == <<47, 116, 109, 112, 47, 114, 101, 112, 111, 95, 99, 108, 111, 110, 101, 95>>

S_repo == <<114, 101, 112, 111>>

S_err_prefix ==
    <<91, 69, 114, 114, 111, 114, 32, 114, 101, 97, 100, 105, 110, 103, 32, 102, 105, 108, 101, 58, 32>>

S_err_suffix == <<93>>

S_eacces ==
    <<91, 69, 114, 114, 110, 111, 32, 49, 51, 93, 32, 80, 101, 114, 109, 105, 115, 115, 105, 111,
      110, 32, 100, 101, 110, 105, 101, 100, 58, 32>>

S_eio ==
    <<91, 69, 114, 114, 110, 111, 32, 53, 93, 32, 73, 110, 112, 117, 116, 47, 111, 117, 116, 112,
      117, 116, 32, 101, 114, 114, 111, 114>>

\* two of the names tempfile.mkdtemp may append to the prefix: "p" and "q"
TempNames == {<<112>>, <<113>>}

\* os.path.join(a, b) for a relative b
os_path_join(a, b) == a \o <<SLASH>> \o b

\* os.path.relpath(full_path, root_dir) for a full_path below root_dir
os_path_relpath(full_path, root_dir) ==
    SubSeq(full_path, Len(root_dir) + 2, Len(full_path))

\* str.__lt__: code point by code point, a proper prefix is smaller
StrLess(a, b) ==
    \E k \in 1..(Min(Len(a), Len(b)) + 1) :
        /\ \A i \in 1..(k - 1) : a[i] = b[i]
        /\ \/ k > Len(a) /\ k <= Len(b)
           \/ k <= Len(a) /\ k <= Len(b) /\ a[k] < b[k]

\* as list_sort, but leaving the list in the order of the walk
list_sort_none(l) == l

\* the place of l[i] in the stable order by the first component: the number
\* of elements with a smaller key, or with the same key and standing before it
sort_rank(l, i) ==
    Cardinality({j \in 1..Len(l) : \/ StrLess(l[j][1], l[i][1])
                                    \/ (l[j][1] = l[i][1] /\ j < i)})

\* list.sort(key=lambda x: x[0]): the elements in the stable order by the
\* first component
list_sort(l) ==
    [k \in 1..Len(l) |-> l[CHOOSE i \in 1..Len(l) : sort_rank(l, i) = k - 1]]

\* ------------------------------------------------------------ text codec
REPLACEMENT == 65533

\* bytes.decode("utf-8", errors="replace") for one- and two-byte sequences:
\* every byte that starts no valid sequence becomes U+FFFD
RECURSIVE utf8_decode(_)
utf8_decode(bs) ==
    IF bs = <<>> THEN <<>>
    ELSE IF bs[1] < 128 THEN <<bs[1]>> \o utf8_decode(Tail(bs))
    ELSE IF /\ bs[1] >= 194 /\ bs[1] <= 223
            /\ Len(bs) >= 2 /\ bs[2] >= 128 /\ bs[2] <= 191
         THEN <<(bs[1] - 192) * 64 + (bs[2] - 128)>> \o utf8_decode(SubSeq(bs, 3, Len(bs)))
    ELSE <<REPLACEMENT>> \o utf8_decode(Tail(bs))

\* universal newlines of a text-mode read: "\r\n" and "\r" become "\n"
RECURSIVE translate_newlines(_)
translate_newlines(cs) ==
    IF cs = <<>> THEN <<>>
    ELSE IF cs[1] = 13 /\ Len(cs) >= 2 /\ cs[2] = 10
         THEN <<10>> \o translate_newlines(SubSeq(cs, 3, Len(cs)))
    ELSE IF cs[1] = 13 THEN <<10>> \o translate_newlines(Tail(cs))
    ELSE <<cs[1]>> \o translate_newlines(Tail(cs))

\* the UTF-8 bytes of one code point below U+10000
utf8_encode_char(c) ==
    IF c < 128 THEN <<c>>
    ELSE IF c < 2048 THEN <<192 + (c \div 64), 128 + (c % 64)>>
    ELSE <<224 + (c \div 4096), 128 + ((c \div 64) % 64), 128 + (c % 64)>>

\* str.encode("utf-8"): the bytes of the code points, one after the other
RECURSIVE utf8_encode(_)
utf8_encode(cs) ==
    IF cs = <<>> THEN <<>>
    ELSE IF Len(cs) = 1 THEN utf8_encode_char(cs[1])
    ELSE LET h == Len(cs) \div 2
         IN  utf8_encode(SubSeq(cs, 1, h)) \o utf8_encode(SubSeq(cs, h + 1, Len(cs)))

\* ------------------------------------------------------ repository trees
N_a == <<97>>

N_b == <<98>>

N_c == <<99>>

N_d == <<100>>

N_e == <<101>>

N_l == <<108>>

\* an entry of the cloned tree: its path below the repository root, its
\* kind ("file", "dir", or "linkfile" for a symbolic link to a regular
\* file), the bytes an open of the path reads (for a link, its target's),
\* whether opening it fails while it is sampled, and how reading it fails in
\* a pool worker ("none", "open" or "read")
Entry(path, kind, content, open_err, read_err) ==
    [path |-> path, kind |-> kind, content |-> content,
     open_err |-> open_err, read_err |-> read_err]

Universe ==
    { Entry(<<N_a>>, "file", <<104, 13, 10>>, FALSE, "none"),
      Entry(<<N_b>>, "file", <<120>>, FALSE, "open"),
      Entry(<<N_c>>, "file", <<0, 65>>, FALSE, "none"),
      Entry(<<N_e>>, "file", <<121>>, TRUE, "open"),
      Entry(<<N_l>>, "linkfile", <<108, 10>>, FALSE, "none"),
      Entry(<<S_git>>, "dir", <<>>, FALSE, "none"),
      Entry(<<S_git, N_a>>, "file", <<103>>, FALSE, "none"),
      Entry(<<N_d>>, "dir", <<>>, FALSE, "none"),
      Entry(<<N_d, N_b>>, "file", <<200, 105, 105, 10>>, FALSE, "none"),
      Entry(<<N_d, N_c>>, "file", <<122>>, FALSE, "read"),
      Entry(<<N_d, S_git>>, "dir", <<>>, FALSE, "none"),
      Entry(<<N_d, S_git, N_a>>, "file", <<103>>, FALSE, "none") }

Parent(path) == SubSeq(path, 1, Len(path) - 1)

\* a tree holds the directory of each of its entries
IsTree(t) ==
    \A n \in t : Len(n.path) > 1 =>
        \E m \in t : m.path = Parent(n.path) /\ m.kind = "dir"

Trees == {t \in SUBSET Universe : Cardinality(t) <= MaxEntries /\ IsTree(t)}

\* ------------------------------------------------------------------ state
VARIABLES
    pc,             \* the phase of the run
    run,            \* the number of the run, 1..MaxRuns
    tree,           \* the entries the clone puts below temp_dir/repo
    cpu,            \* cpu_count()
    temp_dir,       \* the path mkdtemp returned, <<>> before it is called
    temp_exists,    \* the temporary directory is on disk
    artifact,       \* the file at output_file: [exists, bytes]
    artifact0,      \* the file at output_file when the run started
    stack,          \* os.walk: the directories still to visit, first on top
    visited,        \* os.walk: the directories visited so far
    files_list,     \* gather_files: the tuples appended so far
    files,          \* main: the list gather_files returned
    next_task,      \* Pool.imap: the index of the next task to hand out
    worker,         \* Pool: the task each worker holds, 0 when idle
    results,        \* Pool.imap: the results that arrived, by task index
    reads,          \* how often read_file_content ran for each task index
    file_contents,  \* main: the results list(...) has collected
    handle,         \* the artifact handle: "none", "open" or "closed"
    opens,          \* how often the artifact was opened in this run
    written,        \* write_markdown_async: the write calls that returned
    exit_status,    \* the exit status of the process, -1 while it runs
    cloned,         \* the outcome of clone_repository: "pending", "ok", "failed"
    completed,      \* Pool: the task indexes in the order their reads finished
    prev_status,    \* the exit status of the previous run, -1 when there is none
    phases          \* the phases the run went through, in order

vars ==
    <<pc, run, tree, cpu, temp_dir, temp_exists, artifact, artifact0, stack, visited,
      files_list, files, next_task, worker, results, reads, file_contents, handle,
      opens, written, exit_status, cloned, completed, prev_status, phases>>

NoFile == [exists |-> FALSE, bytes |-> <<>>]

\* ------------------------------------------------------------ file system
RECURSIVE JoinPath(_, _)
JoinPath(base, comps) ==
    IF comps = <<>> THEN base
    ELSE JoinPath(os_path_join(base, Head(comps)), Tail(comps))

repo_dir == os_path_join(temp_dir, S_repo)

\* the entries a path names (none or one)
fs_lookup(full_path) == {n \in tree : JoinPath(repo_dir, n.path) = full_path}

Children(dir) == {n \in tree : Len(n.path) = Len(dir) + 1 /\ Parent(n.path) = dir}

Basename(n) == n.path[Len(n.path)]

\* ------------------------------------------------------------- classifier
Allowed == (32..126) \cup {9, 10, 13}

\* f.read(blocksize) of a file just opened
f_read(content, blocksize) == SubSeq(content, 1, Min(blocksize, Len(content)))

\* as ratio_exceeds, but excluding a chunk at the threshold too
ratio_reaches(nontext, length) == nontext * 10 >= 3 * length

\* nontext / len(chunk) > 0.30, exact for every chunk of at most 1024 bytes
ratio_exceeds(nontext, length) == nontext * 10 > 3 * length

\* the body of the try block of is_text_file on the bytes of an opened file
chunk_is_text(content, blocksize) ==
    LET chunk == f_read(content, blocksize)
        nontext == Cardinality({i \in 1..Len(chunk) : chunk[i] \notin Allowed})
    IN  IF 0 \in Range(chunk) THEN FALSE
        ELSE IF chunk = <<>> THEN TRUE
        ELSE IF ratio_exceeds(nontext, Len(chunk)) THEN FALSE
        ELSE TRUE

\* open(path) follows symbolic links: it yields a file for a regular file
\* and for a link to one
opens_as_file(n) == n.kind \in {"file", "linkfile"}

is_text_file(file_path, blocksize) ==
    LET found == fs_lookup(file_path)
    IN  IF found = {} THEN FALSE
        ELSE LET n == CHOOSE m \in found : TRUE
             IN  IF ~opens_as_file(n) \/ n.open_err THEN FALSE
                 ELSE chunk_is_text(n.content, blocksize)

BLOCKSIZE == 1024

\* ----------------------------------------------------------------- walker
\* os.walk: an entry goes to dirs when it is a directory, else to files
is_dir(n) == n.kind = "dir"

\* as prune_dirs, but leaving .git in dirs
prune_dirs_none(dirs) == dirs

\* if ".git" in dirs: dirs.remove(".git")
prune_dirs(dirs) == SelectSeq(dirs, LAMBDA n : Basename(n) # S_git)

\* the tuples the loop over files appends for one directory
RECURSIVE walk_files(_, _)
walk_files(current_root, fs) ==
    IF fs = <<>> THEN <<>>
    ELSE LET full_path == os_path_join(current_root, Basename(Head(fs)))
         IN  (IF is_text_file(full_path, BLOCKSIZE)
                 THEN << <<os_path_relpath(full_path, repo_dir), full_path>> >>
                 ELSE <<>>)
             \o walk_files(current_root, Tail(fs))

\* --------------------------------------------------------------- reader
QUOTE == 39

\* str(e) of the OSError a failing open raises: it names the full path
open_error_str(full_path) == S_eacces \o <<QUOTE>> \o full_path \o <<QUOTE>>

\* as error_content, but swallowing the error into an empty content
error_content_empty(e) == <<>>

\* f"[Error reading file: {e}]"
error_content(e) == S_err_prefix \o e \o S_err_suffix

read_file_content(file_tuple) ==
    LET rel_path == file_tuple[1]
        full_path == file_tuple[2]
        found == fs_lookup(full_path)
        n == CHOOSE m \in found : TRUE
        content == IF found = {} \/ n.read_err = "open"
                      THEN error_content(open_error_str(full_path))
                   ELSE IF n.read_err = "read" THEN error_content(S_eio)
                   ELSE translate_newlines(utf8_decode(n.content))
    IN  <<rel_path, content>>

\* --------------------------------------------------------------- writer
DELIMITER_LENGTH == 80

DASH == 45

NEWLINE == 10

SPACE == 32

\* as delimiter, but without the newline in front of the rule
delimiter_no_newline(rel_path) ==
    Rep(DASH, DELIMITER_LENGTH) \o <<SPACE>> \o rel_path \o <<SPACE>>
        \o Rep(DASH, DELIMITER_LENGTH) \o <<NEWLINE>>

delimiter(rel_path) ==
    <<NEWLINE>> \o Rep(DASH, DELIMITER_LENGTH) \o <<SPACE>> \o rel_path \o <<SPACE>>
        \o Rep(DASH, DELIMITER_LENGTH) \o <<NEWLINE>>

\* the string the k-th md.write call of the loop is given, k = 1, 2, ...
write_arg(file_results, k) ==
    LET result == file_results[((k - 1) \div 3) + 1]
    IN  CASE (k - 1) % 3 = 0 -> delimiter(result[1])
          [] (k - 1) % 3 = 1 -> result[2]
          [] OTHER -> <<NEWLINE>>

\* ---------------------------------------------------------------- actions
\* the state before main runs, for a repository among trees on a machine
\* whose cpu_count() is among cpus
InitOver(trees, cpus) ==
    /\ pc = "Idle"
    /\ run = 1
    /\ tree \in trees
    /\ cpu \in cpus
    /\ temp_dir = <<>>
    /\ temp_exists = FALSE
    /\ artifact = NoFile
    /\ artifact0 = NoFile
    /\ stack = <<>>
    /\ visited = {}
    /\ files_list = <<>>
    /\ files = <<>>
    /\ next_task = 1
    /\ worker = [w \in 1..cpu |-> 0]
    /\ results = <<>>
    /\ reads = <<>>
    /\ file_contents = <<>>
    /\ handle = "none"
    /\ opens = 0
    /\ written = 0
    /\ exit_status = -1
    /\ cloned = "pending"
    /\ completed = <<>>
    /\ prev_status = -1
    /\ phases = <<"Idle">>

Init == InitOver(Trees, 1..MaxWorkers)

\* the run moves to the next phase
Enter(phase) ==
    /\ pc' = phase
    /\ phases' = Append(phases, phase)

\* as Exit, but with rmtree at the end of the try block instead of in finally
Exit_no_finally(phase, status) ==
    /\ Enter(phase)
    /\ exit_status' = status
    /\ temp_exists' = (phase # "Done")

\* the process ends: the finally clause removes the temporary directory
Exit(phase, status) ==
    /\ Enter(phase)
    /\ exit_status' = status
    /\ temp_exists' = FALSE

\* as Start, but creating the output file before the clone
Start_creates_output ==
    /\ pc = "Idle"
    /\ \E name \in TempNames : temp_dir' = S_tmp_prefix \o name
    /\ temp_exists' = TRUE
    /\ artifact' = [exists |-> TRUE, bytes |-> <<>>]
    /\ Enter("Retrieving")
    /\ UNCHANGED <<run, tree, cpu, artifact0, stack, visited, files_list, files,
                   next_task, worker, results, reads, file_contents, handle, opens, written,
                   exit_status, cloned, completed, prev_status>>

\* main up to the call of clone_repository: mkdtemp creates the directory
Start ==
    /\ pc = "Idle"
    /\ \E name \in TempNames : temp_dir' = S_tmp_prefix \o name
    /\ temp_exists' = TRUE
    /\ Enter("Retrieving")
    /\ UNCHANGED <<run, tree, cpu, artifact, artifact0, stack, visited, files_list, files,
                   next_task, worker, results, reads, file_contents, handle, opens, written,
                   exit_status,
                   cloned, completed, prev_status>>

\* git clone succeeds and main calls gather_files
CloneOk ==
    /\ pc = "Retrieving"
    /\ cloned' = "ok"
    /\ stack' = << <<>> >>
    /\ Enter("Walking")
    /\ UNCHANGED <<run, tree, cpu, temp_dir, temp_exists, artifact, artifact0, visited,
                   files_list, files, next_task, worker, results, reads, file_contents,
                   handle, opens, written, exit_status, completed, prev_status>>

\* as CloneFail, but ignoring the exit status of git clone and going on
CloneFail_ignored ==
    /\ pc = "Retrieving"
    /\ cloned' = "failed"
    /\ stack' = << <<>> >>
    /\ Enter("Walking")
    /\ UNCHANGED <<run, tree, cpu, temp_dir, temp_exists, artifact, artifact0, visited,
                   files_list, files, next_task, worker, results, reads, file_contents,
                   handle, opens, written, exit_status, completed, prev_status>>

\* git clone fails: sys.exit with a message, exit status 1
CloneFail ==
    /\ pc = "Retrieving"
    /\ cloned' = "failed"
    /\ Exit("Failed", 1)
    /\ UNCHANGED <<run, tree, cpu, temp_dir, artifact, artifact0, stack, visited, files_list,
                   files, next_task, worker, results, reads, file_contents, handle, opens,
                   written, completed, prev_status>>

\* as walk_finished, but returning from inside the loop, after the first directory
walk_finished_early(stk) == TRUE

\* os.walk is exhausted when no directory is left to visit
walk_finished(stk) == stk = <<>>

\* one iteration of the loop over os.walk; after the last one gather_files
\* sorts files_list in place and returns it, and main creates the pool
WalkStep ==
    /\ pc = "Walking"
    /\ stack # <<>>
    /\ LET top == Head(stack)
           current_root == JoinPath(repo_dir, top)
       IN  \E order \in Orderings(Children(top)) :
             \E dirs \in {prune_dirs(SelectSeq(order, is_dir))},
                nondirs \in {SelectSeq(order, LAMBDA n : ~is_dir(n))} :
               \E appended \in {files_list \o walk_files(current_root, nondirs)} :
                 /\ stack' = [i \in 1..Len(dirs) |-> dirs[i].path] \o Tail(stack)
                 /\ visited' = visited \cup {top}
                 /\ files_list' = IF walk_finished(stack') THEN list_sort(appended)
                                                          ELSE appended
    /\ IF walk_finished(stack')
          THEN /\ files' = files_list'
               /\ reads' = [i \in 1..Len(files') |-> 0]
               /\ Enter("Reading")
          ELSE UNCHANGED <<files, reads, pc, phases>>
    /\ UNCHANGED <<run, tree, cpu, temp_dir, temp_exists, artifact, artifact0, next_task,
                   worker, results, file_contents, handle, opens, written, exit_status,
                   cloned, completed, prev_status>>

\* ------------------------------------------------------------ reader pool
\* as imap_next, but yielding results in the order they arrive (imap_unordered)
imap_next_unordered(res, collected) ==
    {i \in DOMAIN res : res[i] \notin Range(collected)}

\* Pool.imap: the task indexes whose result the iterator may yield next
\* when list(...) has collected `collected`: the next one in task order
imap_next(res, collected) ==
    IF Len(collected) + 1 \in DOMAIN res THEN {Len(collected) + 1} ELSE {}

\* as imap_exhausted, but stopping one result early
imap_exhausted_early(collected, tasks) == Len(collected) >= Len(tasks) - 1

\* list(...) stops when the iterator has yielded one result per task
imap_exhausted(collected, tasks) == Len(collected) = Len(tasks)

\* an idle worker takes the next task of the queue
WorkerTake(w) ==
    /\ pc = "Reading"
    /\ worker[w] = 0
    /\ next_task <= Len(files)
    /\ worker' = [worker EXCEPT ![w] = next_task]
    /\ next_task' = next_task + 1
    /\ UNCHANGED <<pc, run, tree, cpu, temp_dir, temp_exists, artifact, artifact0, stack,
                   visited, files_list, files, results, reads, file_contents, handle, opens,
                   written, exit_status, phases,
                   cloned, completed, prev_status>>

\* as WorkerFinish, but with a read that never returns when it fails
WorkerFinish_blocks(w) ==
    /\ pc = "Reading"
    /\ worker[w] # 0
    /\ \A n \in fs_lookup(files[worker[w]][2]) : n.read_err = "none"
    /\ LET i == worker[w]
       IN  /\ results' = (i :> read_file_content(files[i])) @@ results
           /\ reads' = [reads EXCEPT ![i] = @ + 1]
           /\ completed' = Append(completed, i)
    /\ worker' = [worker EXCEPT ![w] = 0]
    /\ UNCHANGED <<pc, run, tree, cpu, temp_dir, temp_exists, artifact, artifact0, stack,
                   visited, files_list, files, next_task, file_contents, handle, opens,
                   written, exit_status, phases, cloned, prev_status>>

\* as WorkerFinish, but with a read_file_content that lets the exception of a
\* failed read reach main, whose except clause exits with status 1
WorkerFinish_raises(w) ==
    /\ pc = "Reading"
    /\ worker[w] # 0
    /\ LET i == worker[w]
           found == fs_lookup(files[i][2])
       IN  IF \E n \in found : n.read_err # "none"
              THEN /\ Exit("Failed", 1)
                   /\ UNCHANGED <<results, reads, completed, worker>>
              ELSE /\ results' = (i :> read_file_content(files[i])) @@ results
                   /\ reads' = [reads EXCEPT ![i] = @ + 1]
                   /\ completed' = Append(completed, i)
                   /\ worker' = [worker EXCEPT ![w] = 0]
                   /\ UNCHANGED <<pc, phases, exit_status, temp_exists>>
    /\ UNCHANGED <<run, tree, cpu, temp_dir, artifact, artifact0, stack,
                   visited, files_list, files, next_task, file_contents, handle, opens,
                   written, cloned, prev_status>>

\* a worker runs read_file_content on its task and sends the result back
WorkerFinish(w) ==
    /\ pc = "Reading"
    /\ worker[w] # 0
    /\ LET i == worker[w]
       IN  /\ results' = (i :> read_file_content(files[i])) @@ results
           /\ reads' = [reads EXCEPT ![i] = @ + 1]
           /\ completed' = Append(completed, i)
    /\ worker' = [worker EXCEPT ![w] = 0]
    /\ UNCHANGED <<pc, run, tree, cpu, temp_dir, temp_exists, artifact, artifact0, stack,
                   visited, files_list, files, next_task, file_contents, handle, opens,
                   written, exit_status, phases, cloned, prev_status>>

\* list(tqdm(pool.imap(...))) receives the next result
ImapNext ==
    /\ pc = "Reading"
    /\ ~imap_exhausted(file_contents, files)
    /\ \E i \in imap_next(results, file_contents) :
          file_contents' = Append(file_contents, results[i])
    /\ UNCHANGED <<pc, run, tree, cpu, temp_dir, temp_exists, artifact, artifact0, stack,
                   visited, files_list, files, next_task, worker, results, reads, handle,
                   opens, written, exit_status, phases,
                   cloned, completed, prev_status>>

\* the iterator is exhausted, the pool is left and main calls asyncio.run
ReadingDone ==
    /\ pc = "Reading"
    /\ imap_exhausted(file_contents, files)
    /\ Enter("Writing")
    /\ UNCHANGED <<run, tree, cpu, temp_dir, temp_exists, artifact, artifact0, stack, visited,
                   files_list, files, next_task, worker, results, reads, file_contents,
                   handle, opens, written, exit_status,
                   cloned, completed, prev_status>>

\* ----------------------------------------------------------------- writer
\* aiofiles.open(output_file, "w") creates or truncates the artifact
AioOpenOk ==
    /\ pc = "Writing"
    /\ handle = "none"
    /\ artifact' = [exists |-> TRUE, bytes |-> <<>>]
    /\ handle' = "open"
    /\ opens' = opens + 1
    /\ UNCHANGED <<pc, run, tree, cpu, temp_dir, temp_exists, artifact0, stack, visited,
                   files_list, files, next_task, worker, results, reads, file_contents,
                   written, exit_status, phases,
                   cloned, completed, prev_status>>

\* aiofiles.open raises: main's except clause exits with status 1
AioOpenFail ==
    /\ pc = "Writing"
    /\ handle = "none"
    /\ Exit("Failed", 1)
    /\ UNCHANGED <<run, tree, cpu, temp_dir, artifact, artifact0, stack, visited, files_list,
                   files, next_task, worker, results, reads, file_contents, handle, opens,
                   written,
                   cloned, completed, prev_status>>

\* one md.write call returns
WriteOk ==
    /\ pc = "Writing"
    /\ handle = "open"
    /\ written < 3 * Len(file_contents)
    /\ artifact' = [artifact EXCEPT
                      !.bytes = @ \o utf8_encode(write_arg(file_contents, written + 1))]
    /\ written' = written + 1
    /\ UNCHANGED <<pc, run, tree, cpu, temp_dir, temp_exists, artifact0, stack, visited,
                   files_list, files, next_task, worker, results, reads, file_contents,
                   handle, opens, exit_status, phases,
                   cloned, completed, prev_status>>

\* as WriteFail, but with a plain open instead of the async with block: the
\* handle stays open when a write raises
WriteFail_leaks ==
    /\ pc = "Writing"
    /\ handle = "open"
    /\ written < 3 * Len(file_contents)
    /\ Exit("Failed", 1)
    /\ UNCHANGED <<run, tree, cpu, temp_dir, artifact, artifact0, stack, visited, files_list,
                   files, next_task, worker, results, reads, file_contents, handle, opens,
                   written, cloned, completed, prev_status>>

\* one md.write call raises: the async with block closes the handle
WriteFail ==
    /\ pc = "Writing"
    /\ handle = "open"
    /\ written < 3 * Len(file_contents)
    /\ handle' = "closed"
    /\ Exit("Failed", 1)
    /\ UNCHANGED <<run, tree, cpu, temp_dir, artifact, artifact0, stack, visited, files_list,
                   files, next_task, worker, results, reads, file_contents, opens, written,
                   cloned, completed, prev_status>>

\* the loop is over, the async with block closes the handle, main returns
CloseOk ==
    /\ pc = "Writing"
    /\ handle = "open"
    /\ written = 3 * Len(file_contents)
    /\ handle' = "closed"
    /\ Exit("Done", 0)
    /\ UNCHANGED <<run, tree, cpu, temp_dir, artifact, artifact0, stack, visited, files_list,
                   files, next_task, worker, results, reads, file_contents, opens, written,
                   cloned, completed, prev_status>>

\* the flush of the close raises: the handle is closed, main exits with 1
CloseFail ==
    /\ pc = "Writing"
    /\ handle = "open"
    /\ written = 3 * Len(file_contents)
    /\ handle' = "closed"
    /\ Exit("Failed", 1)
    /\ UNCHANGED <<run, tree, cpu, temp_dir, artifact, artifact0, stack, visited, files_list,
                   files, next_task, worker, results, reads, file_contents, opens, written,
                   cloned, completed, prev_status>>

\* ------------------------------------------------------------ environment
\* after a run that completed, the program is started again over the same
\* repository
Rerun ==
    /\ pc = "Done"
    /\ run < MaxRuns
    /\ run' = run + 1
    /\ pc' = "Idle"
    /\ phases' = <<"Idle">>
    /\ artifact0' = artifact
    /\ temp_dir' = <<>>
    /\ stack' = <<>>
    /\ visited' = {}
    /\ files_list' = <<>>
    /\ files' = <<>>
    /\ next_task' = 1
    /\ worker' = [w \in 1..cpu |-> 0]
    /\ results' = <<>>
    /\ reads' = <<>>
    /\ file_contents' = <<>>
    /\ handle' = "none"
    /\ opens' = 0
    /\ written' = 0
    /\ exit_status' = -1
    /\ cloned' = "pending"
    /\ completed' = <<>>
    /\ prev_status' = exit_status
    /\ UNCHANGED <<tree, cpu, temp_exists, artifact>>

Next ==
    \/ Start
    \/ CloneOk
    \/ CloneFail
    \/ WalkStep
    \/ \E w \in 1..cpu : WorkerTake(w)
    \/ \E w \in 1..cpu : WorkerFinish(w)
    \/ ImapNext
    \/ ReadingDone
    \/ AioOpenOk
    \/ AioOpenFail
    \/ WriteOk
    \/ WriteFail
    \/ CloseOk
    \/ CloseFail
    \/ Rerun

Spec == Init /\ [][Next]_vars

\* ------------------------------------------------- one run, scheduled fairly
\* the steps of the main process
MainStep ==
    \/ Start
    \/ CloneFail
    \/ CloneOk
    \/ WalkStep
    \/ ImapNext
    \/ ReadingDone
    \/ AioOpenFail
    \/ AioOpenOk
    \/ WriteFail
    \/ WriteOk
    \/ CloseFail
    \/ CloseOk

\* the steps of pool worker w
WorkerStep(w) == w \in DOMAIN worker /\ (WorkerTake(w) \/ WorkerFinish(w))

\* the steps of the pool
PoolStep == \E w \in 1..MaxWorkers : WorkerStep(w)

NextRun ==
    \/ MainStep
    \/ PoolStep

\* one run in which the main process keeps running while it has a step to
\* take, and the pool while one of its workers has
SpecFair ==
    /\ Init
    /\ [][NextRun]_vars
    /\ WF_vars(MainStep)
    /\ WF_vars(PoolStep)

\* ------------------------------------------- the classifier on its own
\* file contents around the limits of is_text_file: n1 letters, then n2
\* bytes x, then a tail of n3 bytes t
ProbeSplits ==
    { <<0, 0>>, <<0, 1>>, <<7, 3>>, <<6, 4>>, <<714, 306>>, <<717, 307>>, <<716, 308>>,
      <<1023, 1>>, <<1024, 1>>, <<1024, 400>> }

ProbeBytes == {0, 9, 10, 13, 31, 32, 65, 126, 127, 200}

ProbeContents ==
    { Rep(65, sp[1]) \o Rep(x, sp[2]) \o Rep(t, n3) :
        sp \in ProbeSplits, x \in ProbeBytes, t \in {0, 200}, n3 \in 0..MaxTail }

\* the repositories of one file at the root with a probe content
ProbeTrees == { {Entry(<<N_a>>, "file", c, FALSE, "none")} : c \in ProbeContents }

InitClassify == InitOver(ProbeTrees, {1})

\* a run up to the return of gather_files
NextClassify ==
    \/ Start
    \/ CloneOk
    \/ WalkStep

SpecClassify == InitClassify /\ [][NextClassify]_vars

\* ------------------------------------------------- reading the artifact
\* the start of a delimiter line: a newline, 80 dashes and a space
OpenMark == <<NEWLINE>> \o Rep(DASH, DELIMITER_LENGTH) \o <<SPACE>>

BlockStarts(bs) ==
    {p \in 1..(Len(bs) - Len(OpenMark) + 1) :
        /\ bs[p] = NEWLINE
        /\ bs[p + Len(OpenMark) - 1] = SPACE
        /\ SubSeq(bs, p, p + Len(OpenMark) - 1) = OpenMark}

SortedSeq(S) == CHOOSE s \in Orderings(S) : \A i, j \in DOMAIN s : i < j => s[i] < s[j]

\* the delimiter blocks of an artifact, in order, each as <<path, body>>
ArtifactBlocks(bs) ==
    LET starts == SortedSeq(BlockStarts(bs))
        PathAt(p) == p + Len(OpenMark)
        PathEnd(p) == CHOOSE q \in PathAt(p)..Len(bs) :
                         /\ bs[q] = SPACE
                         /\ \A r \in PathAt(p)..(q - 1) : bs[r] # SPACE
        BodyEnd(k) == IF k < Len(starts) THEN starts[k + 1] - 2 ELSE Len(bs) - 1
    IN  [k \in 1..Len(starts) |->
            << SubSeq(bs, PathAt(starts[k]), PathEnd(starts[k]) - 1),
               SubSeq(bs, PathEnd(starts[k]) + DELIMITER_LENGTH + 2, BodyEnd(k)) >>]

\* the relative path of an entry as a string
RelStr(path) == JoinPath(Head(path), Tail(path))

\* the files of the tree that belong in the artifact: the entries os.walk
\* lists as files outside every .git directory that can be sampled and whose
\* sample is text
Qualifying ==
    {n \in tree : /\ n.kind # "dir"
                  /\ S_git \notin Range(Parent(n.path))
                  /\ ~n.open_err
                  /\ chunk_is_text(n.content, BLOCKSIZE)}

IsPlaceholder(content) ==
    /\ Len(content) > Len(S_err_prefix)
    /\ SubSeq(content, 1, Len(S_err_prefix)) = S_err_prefix
    /\ content[Len(content)] = S_err_suffix[1]

\* ---------------------------------------------------------------- claims
\* C1: whatever the pool size and the order in which the reads finish, the
\* manifest is strictly ascending by relative path, the k-th collected
\* result is the read result of the k-th manifest entry, and the blocks of
\* the finished artifact are the manifest's paths, in manifest order, each
\* with the content read for its own entry.
C1_OutputOrder ==
    /\ \A i \in 1..(Len(files) - 1) : StrLess(files[i][1], files[i + 1][1])
    /\ \A i \in 1..Len(file_contents) : file_contents[i] = read_file_content(files[i])
    /\ pc = "Done" =>
          ArtifactBlocks(artifact.bytes) =
              [i \in 1..Len(files) |->
                  <<files[i][1], utf8_encode(read_file_content(files[i])[2])>>]

\* a finished run of a pool of several workers in which the first read to
\* finish was not the read of the first manifest entry
C1_Witness ==
    /\ pc = "Done"
    /\ cpu >= 2
    /\ Len(files) >= 2
    /\ completed[1] # 1

\* C2: a run that reaches Done has read every manifest entry exactly once,
\* has collected one result per entry, and has written one block per
\* qualifying file of the tree: as many blocks as qualifying files, each
\* qualifying path in one block, no path in two.
C2_ExactlyN ==
    pc = "Done" =>
        LET blocks == ArtifactBlocks(artifact.bytes)
        IN  /\ Len(blocks) = Cardinality(Qualifying)
            /\ Len(files) = Cardinality(Qualifying)
            /\ {blocks[k][1] : k \in DOMAIN blocks} = {RelStr(n.path) : n \in Qualifying}
            /\ \A j, k \in DOMAIN blocks : blocks[j][1] = blocks[k][1] => j = k
            /\ Len(file_contents) = Len(files)
            /\ DOMAIN reads = 1..Len(files)
            /\ \A i \in DOMAIN reads : reads[i] = 1
            /\ Len(completed) = Len(files)

\* a finished run over a tree with two qualifying files and one file that
\* does not qualify
C2_Witness ==
    /\ pc = "Done"
    /\ Cardinality(Qualifying) = 2
    /\ \E n \in tree : n.kind = "file" /\ n \notin Qualifying

\* C3: when the process has ended, in Done or in Failed, the temporary
\* directory is gone.
C3_TempRemoved ==
    (pc \in {"Done", "Failed"} \/ exit_status # -1) => ~temp_exists

\* a run that collected an error placeholder for a file and then failed
\* while writing, its temporary directory removed
C3_Witness ==
    /\ pc = "Failed"
    /\ handle = "closed"
    /\ \E i \in DOMAIN file_contents : IsPlaceholder(file_contents[i][2])
    /\ ~temp_exists

\* the files of the tree that would be in the artifact if they could be
\* opened: regular files outside every .git directory with a text sample
TextFiles ==
    {n \in tree : /\ n.kind # "dir"
                  /\ S_git \notin Range(Parent(n.path))
                  /\ chunk_is_text(n.content, BLOCKSIZE)}

\* the artifact has a block for the path of n whose body is a placeholder
HasPlaceholderBlock(n) ==
    LET blocks == ArtifactBlocks(artifact.bytes)
    IN  \E k \in DOMAIN blocks :
            blocks[k][1] = RelStr(n.path) /\ IsPlaceholder(blocks[k][2])

HasBlock(n) ==
    LET blocks == ArtifactBlocks(artifact.bytes)
    IN  \E k \in DOMAIN blocks : blocks[k][1] = RelStr(n.path)

\* C4 as claimed: in a finished run every text file that cannot be opened,
\* when it is sampled or when it is read, has a block with an error
\* placeholder; none is missing from the artifact.
C4_Original ==
    pc = "Done" =>
        \A n \in TextFiles :
            (n.open_err \/ n.read_err = "open") => HasPlaceholderBlock(n)

\* C4 amended: a manifest entry whose open or read fails in the pool gets an
\* error placeholder as its result and, in a finished run, a block with that
\* placeholder, and the run ends with status 0; no run fails in Reading; a
\* file whose open fails while it is sampled has no block.
C4_ReadErrorPlaceholder ==
    /\ \A i \in DOMAIN results :
          (\E n \in fs_lookup(files[i][2]) : n.read_err # "none")
              => IsPlaceholder(results[i][2])
    /\ pc = "Failed" => phases[Len(phases) - 1] # "Reading"
    /\ pc = "Done" =>
          /\ exit_status = 0
          /\ \A n \in TextFiles :
                /\ (~n.open_err /\ n.read_err # "none") => HasPlaceholderBlock(n)
                /\ n.open_err => ~HasBlock(n)

\* a finished run over a tree with a file that cannot be opened when it is
\* sampled and a manifest entry that cannot be opened when it is read
C4_Witness ==
    /\ pc = "Done"
    /\ \E n \in TextFiles : n.open_err
    /\ \E n \in Qualifying : n.read_err = "open"

\* C5 as claimed: a complete run that follows a complete run over the same
\* tree leaves the artifact byte for byte as the earlier run left it.
C5_Idempotent ==
    (run >= 2 /\ prev_status = 0 /\ pc = "Done") => artifact = artifact0

\* C6: once clone_repository has failed the run is Failed with exit status
\* 1, it went through Idle, Retrieving and Failed only, nothing was walked
\* or read, and the artifact was never opened: the output path holds what it
\* held when the run started, so no file when there was none.
C6_RetrievalFailure ==
    cloned = "failed" =>
        /\ pc = "Failed"
        /\ exit_status = 1
        /\ phases = <<"Idle", "Retrieving", "Failed">>
        /\ visited = {} /\ files = <<>> /\ results = <<>>
        /\ opens = 0 /\ handle = "none"
        /\ artifact = artifact0
        /\ ~artifact0.exists => ~artifact.exists

\* a first run whose retrieval failed, with no file at the output path
C6_Witness ==
    /\ cloned = "failed"
    /\ run = 1
    /\ ~artifact.exists

\* the transitions of the run-level state machine
PhaseSteps ==
    { <<"Idle", "Retrieving">>, <<"Retrieving", "Walking">>, <<"Walking", "Reading">>,
      <<"Reading", "Writing">>, <<"Writing", "Done">>,
      <<"Retrieving", "Failed">>, <<"Writing", "Failed">> }

\* no file whose sampling fails is gathered, every failed read is a placeholder
PerFileResolved ==
    /\ \A n \in tree : n.open_err =>
          \A i \in DOMAIN files_list : files_list[i][1] # RelStr(n.path)
    /\ \A i \in DOMAIN results :
          (\E n \in fs_lookup(files[i][2]) : n.read_err # "none")
              => IsPlaceholder(results[i][2])

\* C7: every step of a run keeps the phase or takes one of the transitions
\* Idle -> Retrieving -> Walking -> Reading -> Writing -> Done, Retrieving ->
\* Failed, Writing -> Failed (a new run starts in Idle); a file whose
\* sampling fails is left out and a failed read becomes a placeholder.
C7_StateMachine ==
    [][ /\ \/ pc' = pc
           \/ <<pc, pc'>> \in PhaseSteps
           \/ pc = "Done" /\ pc' = "Idle" /\ run' = run + 1
        /\ PerFileResolved' ]_vars

\* a successfully finished run over a tree with a file whose sampling fails
\* and a manifest entry whose read fails after the open
C7_Witness ==
    /\ pc = "Done"
    /\ exit_status = 0
    /\ \E n \in tree : n.kind = "file" /\ n.open_err
    /\ \E n \in Qualifying : n.read_err = "read"

\* reading has begun: a task was handed out or a result arrived
ReadingBegun == next_task > 1 \/ results # <<>> \/ \E w \in DOMAIN worker : worker[w] # 0

\* writing has begun: the artifact was opened or differs from its old state
WritingBegun == handle # "none" \/ opens > 0 \/ artifact # artifact0

C8_Separated ==
    /\ ReadingBegun =>
          /\ pc \in {"Reading", "Writing", "Done", "Failed"}
          /\ stack = <<>>
          /\ files = list_sort(files_list)
    /\ WritingBegun =>
          /\ pc \in {"Writing", "Done", "Failed"}
          /\ Len(file_contents) = Len(files)
          /\ \A i \in 1..Len(files) : reads[i] = 1 /\ i \in DOMAIN results
          /\ \A w \in DOMAIN worker : worker[w] = 0

\* C8: no read starts before the walk is over and the manifest is the sorted
\* list of everything gathered; from then on the manifest never changes; the
\* artifact is opened and written only after every manifest entry was read
\* and its result collected.
C8_PhasesOrdered ==
    /\ []C8_Separated
    /\ [][(pc \in {"Reading", "Writing"}) => (files' = files /\ files_list' = files_list)]_vars

\* the first write to the artifact of a manifest of two or more entries
C8_Witness ==
    /\ pc = "Writing"
    /\ handle = "open"
    /\ written = 1
    /\ Len(files) >= 2

\* the relative path rel has a directory component named .git
HasGitDir(rel) ==
    \E p \in 1..Len(rel) :
        /\ p = 1 \/ rel[p - 1] = SLASH
        /\ p + Len(S_git) <= Len(rel)
        /\ SubSeq(rel, p, p + Len(S_git)) = S_git \o <<SLASH>>

\* C9: the walker never visits and never schedules a directory named .git or
\* one below it, no gathered or manifest path lies inside a .git directory,
\* and no block of a finished artifact names such a path.
C9_NoGit ==
    /\ \A d \in visited \cup Range(stack) : S_git \notin Range(d)
    /\ \A i \in DOMAIN files_list : ~HasGitDir(files_list[i][1])
    /\ \A i \in DOMAIN files : ~HasGitDir(files[i][1])
    /\ pc = "Done" =>
          LET blocks == ArtifactBlocks(artifact.bytes)
          IN  \A k \in DOMAIN blocks : ~HasGitDir(blocks[k][1])

\* a finished run over a tree with a file in a .git directory below a
\* directory the walker visited
C9_Witness ==
    /\ pc = "Done"
    /\ <<N_d>> \in visited
    /\ \E n \in tree : n.path = <<N_d, S_git, N_a>>

\* the bytes is_text_file may look at: the first min(1024, size) bytes
SampleOf(n) == SubSeq(n.content, 1, IF Len(n.content) < 1024 THEN Len(n.content) ELSE 1024)

NonPrintable(b) == ~((32 <= b /\ b <= 126) \/ b = 9 \/ b = 10 \/ b = 13)

\* the classification C10 states, as a function of the sample alone
SampleIncluded(sample) ==
    \/ sample = <<>>
    \/ /\ \A i \in DOMAIN sample : sample[i] # 0
       /\ ~(100 * Cardinality({i \in DOMAIN sample : NonPrintable(sample[i])})
               > 30 * Len(sample))

\* C10: when gather_files has returned, a file at the root that can be
\* opened is in the manifest exactly when its first min(1024, size) bytes
\* are empty, or hold no NUL byte and at most 30% of bytes outside printable
\* ASCII, tab, LF and CR; 30% exactly is included, later bytes do not count.
C10_Classifier ==
    pc = "Reading" =>
        \A n \in tree :
            (n.kind = "file" /\ ~n.open_err /\ Len(n.path) = 1) =>
                ((\E i \in DOMAIN files : files[i][1] = RelStr(n.path))
                    <=> SampleIncluded(SampleOf(n)))

\* a gathered file whose sample holds exactly 30% non-printable bytes
C10_Witness ==
    /\ pc = "Reading"
    /\ \E n \in tree :
          /\ Len(n.content) > 0
          /\ 10 * Cardinality({i \in DOMAIN SampleOf(n) : NonPrintable(SampleOf(n)[i])})
                = 3 * Len(SampleOf(n))
          /\ \E i \in DOMAIN files : files[i][1] = RelStr(n.path)

\* the entry of the tree a manifest tuple names
EntryOf(file_tuple) == CHOOSE n \in tree : JoinPath(repo_dir, n.path) = file_tuple[2]

\* C11 as claimed: no manifest entry is a symbolic link or a special file,
\* and an entry that is skipped does not end the walk: every regular text
\* file that can be sampled, outside .git, is in the manifest the walker
\* returns.
C11_SkipsSymlinks ==
    pc \in {"Reading", "Writing", "Done"} =>
        /\ \A i \in DOMAIN files : EntryOf(files[i]).kind = "file"
        /\ \A n \in Qualifying : n.kind = "file" =>
              \E i \in DOMAIN files : files[i][1] = RelStr(n.path)

\* the handle is opened at most once, it is open only while the run writes,
\* and a run that failed in Writing ended with exit status 1
C12_Handle ==
    /\ opens <= 1
    /\ handle = "open" => pc = "Writing"
    /\ pc \in {"Done", "Failed"} => handle # "open"
    /\ (pc = "Failed" /\ phases[Len(phases) - 1] = "Writing") => exit_status = 1

\* C12: the artifact is opened at most once per run and the open leaves an
\* empty file at the output path whatever was there; when the run ends, in
\* Done or after a failure of any write or of the close, the handle is not
\* open; a failure in Writing ends the run in Failed with exit status 1.
C12_ArtifactLifecycle ==
    /\ []C12_Handle
    /\ [][ /\ (handle = "none" /\ handle' = "open")
                => artifact' = [exists |-> TRUE, bytes |-> <<>>]
           /\ (pc = "Writing" /\ pc' = "Failed")
                => (exit_status' = 1 /\ handle' # "open") ]_vars

\* a second run that truncated the artifact of the first run, wrote less
\* than it held and then failed in a write, the handle closed
C12_Witness ==
    /\ pc = "Failed"
    /\ run = 2
    /\ handle = "closed"
    /\ written >= 1
    /\ Len(artifact.bytes) < Len(artifact0.bytes)

\* C13: the walker never gathers a relative path twice, and the manifest it
\* returns is strictly ascending by relative path: of any two entries the
\* earlier one has the smaller path.
C13_ManifestSorted ==
    /\ \A i, j \in DOMAIN files_list : i # j => files_list[i][1] # files_list[j][1]
    /\ \A i, j \in DOMAIN files : i < j => StrLess(files[i][1], files[j][1])

\* a manifest whose first entry, d/b, was gathered after its second, l,
\* because os.walk lists the root before the directory d
C13_Witness ==
    /\ pc = "Reading"
    /\ Len(files) = 2
    /\ files[1][1] = RelStr(<<N_d, N_b>>)
    /\ files[2][1] = RelStr(<<N_l>>)

IsPrefix(a, b) == Len(a) <= Len(b) /\ SubSeq(b, 1, Len(a)) = a

\* newline, 80 dashes, space, path, space, 80 dashes, newline, content, newline
FramedBlock(path, content) ==
    <<10>> \o Rep(45, 80) \o <<32>> \o path \o <<32>> \o Rep(45, 80) \o <<10>>
        \o content \o <<10>>

\* the framed blocks of the first k manifest entries, one after the other
RECURSIVE FramedUpTo(_)
FramedUpTo(k) ==
    IF k = 0 THEN <<>>
    ELSE FramedUpTo(k - 1)
         \o FramedBlock(files[k][1], utf8_encode(read_file_content(files[k])[2]))

\* while and after the run writes, the artifact is a prefix of the framed
\* blocks of the whole manifest, and all of them when the run is Done
C14_Framed ==
    handle # "none" =>
        /\ IsPrefix(artifact.bytes, FramedUpTo(Len(files)))
        /\ pc = "Done" => artifact.bytes = FramedUpTo(Len(files))

\* C14: every step of the Writing phase only appends to the artifact, the
\* artifact is at every moment a prefix of the final one, and the final one
\* is, for the manifest entries in order, newline, 80 dashes, space, path,
\* space, 80 dashes, newline, content or placeholder, newline, and no more.
C14_AppendOnlyFramed ==
    /\ []C14_Framed
    /\ [][(pc = "Writing" /\ handle = "open") => IsPrefix(artifact.bytes, artifact'.bytes)]_vars

\* the writer inside the second block of a manifest of two or more entries
C14_Witness ==
    /\ pc = "Writing"
    /\ handle = "open"
    /\ written = 4
    /\ Len(files) >= 2

\* before the run writes, the output path holds what it held at the start
C16_Untouched ==
    pc \in {"Idle", "Retrieving", "Walking", "Reading"} => artifact = artifact0

\* C16: no step changes the files of the tree; a step taken in Idle,
\* Retrieving, Walking or Reading leaves the file at the output path as it
\* is, so a file of an earlier run keeps its content until Writing; only
\* steps of Writing change the artifact, and the temporary directory goes
\* away only in the step that ends the run.
C16_Frame ==
    /\ []C16_Untouched
    /\ [][ /\ tree' = tree
           /\ (pc \in {"Idle", "Retrieving", "Walking", "Reading"}) => artifact' = artifact
           /\ (artifact' # artifact) => pc = "Writing"
           /\ (temp_exists /\ ~temp_exists') => pc' \in {"Done", "Failed"} ]_vars

\* a second run that is reading while the artifact of the first run is
\* still at the output path, unchanged
C16_Witness ==
    /\ pc = "Reading"
    /\ run = 2
    /\ next_task > 1
    /\ artifact.bytes # <<>>
    /\ artifact = artifact0

\* C15: with the main process and the workers scheduled fairly, a run that
\* has started ends in Done or Failed, and a read phase that has begun ends
\* with the run moving on to Writing, whatever reads fail.
C15_Terminates ==
    /\ (pc = "Retrieving") ~> (pc \in {"Done", "Failed"})
    /\ (pc = "Reading") ~> (pc = "Writing")

\* a first run of a pool of several workers that ended in Done after a read
\* of its manifest of two or more entries failed
C15_Witness ==
    /\ pc = "Done"
    /\ run = 1
    /\ cpu >= 2
    /\ Len(files) >= 2
    /\ \E i \in DOMAIN file_contents : IsPlaceholder(file_contents[i][2])

====
